---- MODULE Spec2Model ----
(***************************************************************************)
(* Model of the admin-user management core of the PMM repository: the      *)
(* roles / admin_users tables and their triggers, row-level policies and   *)
(* resolver functions (supabase/migrations), the create-user edge function *)
(* (supabase/functions/create-user/index.ts) and the client-side account   *)
(* operations (src/lib/userManagement.ts, src/pages/AdminUsers.tsx).       *)
(***************************************************************************)
EXTENDS Integers, Sequences, FiniteSets, TLC

VARIABLES roles, authUsers, adminUsers, allocated, clientKey, gw, cl, rpc, ops, edits

vars == <<roles, authUsers, adminUsers, allocated, clientKey, gw, cl, rpc, ops, edits>>

(***************************************************************************)
(* Bounds                                                                  *)
(***************************************************************************)
NumIds == 5        \* identities that can ever exist (ids are never reused)
MaxOps == 2        \* client operations started in one run
MaxPageOps == 1    \* page handlers (edit, delete) run in one run
MaxEdits == 1      \* role edits in one run

Ids == 1..NumIds
GwSlots == {"g1", "g2"}      \* request contexts of the edge function
NoId == 0          \* JS null / undefined for an id

(***************************************************************************)
(* Values.  Emails and names are sequences of characters so that the email *)
(* regular expression and split_part compute on their content.             *)
(***************************************************************************)
Mail(c) == <<c, "@", "x", ".", "y">>
EmailRoot == Mail("r")
EmailAdm == Mail("a")
EmailUsr == Mail("u")
EmailNew == Mail("n")
EmailBad == <<"n", "@", "x">>
NameAnn == <<"A">>
NameBob == <<"B">>
NullName == <<"NULL">>       \* SQL NULL in a text column / missing JSON key
EmptyStr == <<>>

RoleUser == "r_user"
RoleAdmin == "r_admin"
RoleSuper == "r_super"
RoleNone == "r_none"         \* a uuid that is no row of roles
NoRole == "null"
RoleIds == {RoleUser, RoleAdmin, RoleSuper}

PermKeys == {"can_manage_super_admins", "can_manage_admins", "can_manage_users",
             "can_view_all_data", "can_modify_system_settings", "manage_users"}
EmptyPerms == [k \in {} |-> TRUE]

\* faulty variant: keys of the left operand win
JsonConcat_leftWins(a, b) ==
  [k \in (DOMAIN a) \cup (DOMAIN b) |-> IF k \in DOMAIN a THEN a[k] ELSE b[k]]

\* jsonb || jsonb: keys of the right operand win
JsonConcat(a, b) ==
  [k \in (DOMAIN a) \cup (DOMAIN b) |-> IF k \in DOMAIN b THEN b[k] ELSE a[k]]

\* the boolean-valued part of the seeded permission sets
SeedPerms(r) ==
  IF r = RoleSuper THEN [k \in {"manage_users"} |-> TRUE] ELSE EmptyPerms

RoleName(r) ==
  CASE r = RoleUser -> "user"
    [] r = RoleAdmin -> "admin"
    [] r = RoleSuper -> "super_admin"

(***************************************************************************)
(* /^[^\s@]+@[^\s@]+\.[^\s@]+$/                                            *)
(***************************************************************************)
emailRegexTest(e) ==
  \E i \in 1..Len(e), j \in 1..Len(e) :
     /\ e[i] = "@"
     /\ e[j] = "."
     /\ 1 < i
     /\ i + 1 < j
     /\ j < Len(e)
     /\ \A k \in 1..Len(e) : k # i => e[k] \notin {"@", " "}

\* split_part(email, '@', 1)
RECURSIVE split_part_1(_)
split_part_1(e) ==
  IF e = <<>> \/ Head(e) = "@" THEN <<>> ELSE <<Head(e)>> \o split_part_1(Tail(e))

COALESCE(a, b) == IF a # NullName THEN a ELSE b

(***************************************************************************)
(* Store helpers                                                           *)
(***************************************************************************)
Remove(f, i) == [j \in (DOMAIN f) \ {i} |-> f[j]]

RoleRow(rid) == IF rid \in DOMAIN roles THEN {roles[rid]} ELSE {}

\* faulty variant: the join without the is_active condition
ActiveRoleNameOf_anyActivity(uid) ==
  IF /\ uid \in DOMAIN adminUsers
     /\ adminUsers[uid].role_id \in DOMAIN roles
  THEN roles[adminUsers[uid].role_id].name
  ELSE "null"

\* admin_users au JOIN roles r ON au.role_id = r.id WHERE au.id = uid AND r.is_active
ActiveRoleNameOf(uid) ==
  IF /\ uid \in DOMAIN adminUsers
     /\ adminUsers[uid].role_id \in DOMAIN roles
     /\ roles[adminUsers[uid].role_id].is_active
  THEN roles[adminUsers[uid].role_id].name
  ELSE "null"

(***************************************************************************)
(* Resolver functions of the store                                         *)
(***************************************************************************)
ComputedSuper ==
  [k \in {"can_manage_super_admins", "can_manage_admins", "can_manage_users",
          "can_view_all_data", "can_modify_system_settings"} |-> TRUE]
ComputedAdmin ==
  [k \in {"can_manage_super_admins", "can_manage_admins", "can_manage_users",
          "can_view_all_data", "can_modify_system_settings"} |->
     k \in {"can_manage_admins", "can_manage_users", "can_view_all_data"}]
ComputedOther ==
  [k \in {"can_manage_super_admins", "can_manage_admins", "can_manage_users",
          "can_view_all_data", "can_modify_system_settings"} |-> FALSE]

get_user_permissions(user_id) ==
  LET user_role == ActiveRoleNameOf(user_id)
      role_permissions ==
        IF user_role = "null" THEN EmptyPerms
        ELSE roles[adminUsers[user_id].role_id].permissions
  IN  IF user_role = "super_admin" THEN JsonConcat(role_permissions, ComputedSuper)
      ELSE IF user_role = "admin" THEN JsonConcat(role_permissions, ComputedAdmin)
      ELSE JsonConcat(role_permissions, ComputedOther)

\* faulty variant: an admin manages every target
can_manage_user_noTargetCheck(uid, target_user_id) ==
  LET current_user_role == ActiveRoleNameOf(uid)
  IN  IF current_user_role = "super_admin" THEN TRUE
      ELSE IF current_user_role = "admin" THEN TRUE
      ELSE IF uid # NoId /\ uid = target_user_id THEN TRUE
      ELSE FALSE

\* faulty variant: without the final self branch
can_manage_user_noSelfBranch(uid, target_user_id) ==
  LET current_user_role == ActiveRoleNameOf(uid)
      target_user_role == ActiveRoleNameOf(target_user_id)
  IN  IF current_user_role = "super_admin" THEN TRUE
      ELSE IF /\ current_user_role = "admin"
              /\ target_user_role # "null"
              /\ target_user_role # "super_admin" THEN TRUE
      ELSE FALSE

\* auth.uid() is the first parameter
can_manage_user(uid, target_user_id) ==
  LET current_user_role == ActiveRoleNameOf(uid)
      target_user_role == ActiveRoleNameOf(target_user_id)
  IN  IF current_user_role = "super_admin" THEN TRUE
      ELSE IF /\ current_user_role = "admin"
              /\ target_user_role # "null"
              /\ target_user_role # "super_admin" THEN TRUE
      ELSE IF uid # NoId /\ uid = target_user_id THEN TRUE
      ELSE FALSE

(***************************************************************************)
(* The view admin_users_with_roles (LEFT JOIN roles, COALESCE defaults)    *)
(***************************************************************************)
admin_users_with_roles(id) ==
  LET au == adminUsers[id]
      joined == au.role_id \in DOMAIN roles
  IN  [id |-> id, email |-> au.email, full_name |-> au.full_name,
       role_id |-> au.role_id, created_at |-> au.created_at,
       role_name |-> IF joined THEN roles[au.role_id].name ELSE "unknown",
       role_permissions |-> IF joined THEN roles[au.role_id].permissions ELSE EmptyPerms,
       role_is_active |-> IF joined THEN roles[au.role_id].is_active ELSE FALSE]

(***************************************************************************)
(* Triggers on auth.users                                                  *)
(***************************************************************************)
ActiveNamed(n) == {r \in DOMAIN roles : roles[r].name = n /\ roles[r].is_active}

\* the role ids the three SELECT ... LIMIT 1 of handle_new_user can yield
DefaultRoleChoices ==
  IF ActiveNamed("admin") # {} THEN ActiveNamed("admin")
  ELSE IF ActiveNamed("super_admin") # {} THEN ActiveNamed("super_admin")
  ELSE IF {r \in DOMAIN roles : roles[r].is_active} # {}
       THEN {r \in DOMAIN roles : roles[r].is_active}
       ELSE {NoRole}

handle_new_user(dir, NEWrow, default_role_id) ==
  IF NEWrow.id \in DOMAIN dir
  THEN [dir EXCEPT ![NEWrow.id].email = NEWrow.email,
                   ![NEWrow.id].full_name =
                      COALESCE(COALESCE(NEWrow.full_name, split_part_1(NEWrow.email)), @)]
  ELSE IF default_role_id = NoRole
  THEN dir       \* role_id NOT NULL is violated; WHEN OTHERS swallows it
  ELSE dir @@ (NEWrow.id :> [email |-> NEWrow.email,
                          full_name |-> COALESCE(NEWrow.full_name, split_part_1(NEWrow.email)),
                          role_id |-> default_role_id,
                          invited_by |-> NoId,
                          created_at |-> NEWrow.created_at])

\* faulty variant: full_name without the fallback to the row's own value
handle_user_update_noOwnName(dir, NEWrow) ==
  IF NEWrow.id \in DOMAIN dir
  THEN [dir EXCEPT ![NEWrow.id].email = NEWrow.email,
                   ![NEWrow.id].full_name =
                      COALESCE(NEWrow.full_name, split_part_1(NEWrow.email))]
  ELSE dir

handle_user_update(dir, NEWrow) ==
  IF NEWrow.id \in DOMAIN dir
  THEN [dir EXCEPT ![NEWrow.id].email = NEWrow.email,
                   ![NEWrow.id].full_name =
                      COALESCE(NEWrow.full_name, COALESCE(@, split_part_1(NEWrow.email)))]
  ELSE dir

\* faulty variant: the delete trigger leaves the directory row
handle_user_delete_keepsRow(dir, OLD_id) == dir

handle_user_delete(dir, OLD_id) == Remove(dir, OLD_id)

(***************************************************************************)
(* Identity provider admin calls of auth.admin, with their triggers        *)
(***************************************************************************)
EmailTaken(email) == \E i \in DOMAIN authUsers : authUsers[i].email = email

FreshId == CHOOSE i \in Ids \ allocated : \A j \in Ids \ allocated : i <= j

\* auth.admin.createUser succeeded for a new identity id
AuthCreateUser(id, email, full_name) ==
  LET NEWrow == [id |-> id, email |-> email, full_name |-> full_name, created_at |-> id]
  IN  /\ authUsers' = authUsers @@ (id :> [email |-> email, full_name |-> full_name,
                                          created_at |-> id])
      /\ allocated' = allocated \cup {id}
      /\ \E d \in DefaultRoleChoices : adminUsers' = handle_new_user(adminUsers, NEWrow, d)

\* auth.admin.deleteUser succeeded
AuthDeleteUser(id) ==
  /\ authUsers' = Remove(authUsers, id)
  /\ adminUsers' = handle_user_delete(adminUsers, id)

\* auth.admin.updateUserById succeeded; NoEmail / NullName leave the attribute alone
NoEmail == <<"NULL">>
AuthUpdateUser(id, email, full_name) ==
  LET NEWrow == [id |-> id,
              email |-> IF email # NoEmail THEN email ELSE authUsers[id].email,
              full_name |-> IF full_name # NullName THEN full_name
                            ELSE authUsers[id].full_name,
              created_at |-> authUsers[id].created_at]
  IN  /\ authUsers' = [authUsers EXCEPT ![id] = [email |-> NEWrow.email,
                                                 full_name |-> NEWrow.full_name,
                                                 created_at |-> NEWrow.created_at]]
      /\ adminUsers' = handle_user_update(adminUsers, NEWrow)

(***************************************************************************)
(* The create-user edge function (supabase/functions/create-user/index.ts) *)
(* One step per awaited call; the service-role client bypasses row-level   *)
(* security.  ok = FALSE is the call returning an error (network, server). *)
(***************************************************************************)
NoHeader == 0 - 2
BadToken == 0 - 1

NoBody == [email |-> EmptyStr, password |-> "", full_name |-> EmptyStr,
           role_id |-> RoleNone, send_welcome_email |-> FALSE]

GwIdle == [pc |-> "idle", user |-> NoId, role_name |-> "", caller_role_active |-> FALSE,
           body |-> NoBody, newUser |-> NoId, cleanup |-> "none",
           status |-> 0, error |-> "", detail |-> "", log |-> {}]

\* the catch block: console.error and the 400 response
GwThrow(r, msg) ==
  gw' = [gw EXCEPT ![r].pc = "done", ![r].status = 400, ![r].error = msg,
                   ![r].log = @ \cup {msg}]

GwBodies ==
  [email : {EmailNew, EmailAdm, EmailBad},
   password : {"12345", "123456"},
   full_name : {NameAnn, EmptyStr},
   role_id : RoleIds \cup {RoleNone},
   send_welcome_email : BOOLEAN]

\* faulty variant: every known role may create users
canCreateUsers_anyRole(role_name) == role_name \in {"super_admin", "admin", "user"}

canCreateUsers(role_name) == role_name = "super_admin" \/ role_name = "admin"

\* faulty variant: the role assignment check never throws
canAssignRole_always(role_name, caller_role_name) == TRUE

\* negation of the throw condition of the role assignment check
canAssignRole(role_name, caller_role_name) ==
  ~(role_name = "super_admin" /\ caller_role_name # "super_admin")

MissingFields(b) ==
  b.email = EmptyStr \/ b.password = "" \/ b.full_name = EmptyStr \/ b.role_id = ""

\* the Authorization header check and auth.getUser(token)
GwAuth(r, hdr, body, ok) ==
  /\ gw[r].pc = "idle"
  /\ IF hdr = NoHeader THEN GwThrow(r, "No authorization header")
     ELSE IF ~ok \/ hdr \notin DOMAIN authUsers THEN GwThrow(r, "Unauthorized")
     ELSE gw' = [gw EXCEPT ![r].pc = "lookup", ![r].user = hdr, ![r].body = body]
  /\ UNCHANGED <<roles, authUsers, adminUsers, allocated, clientKey, cl, rpc, ops, edits>>

\* select from admin_users_with_roles, the permission check and the body validation
GwAdminLookup(r, ok) ==
  /\ gw[r].pc = "lookup"
  /\ LET b == gw[r].body IN
     IF ~ok \/ gw[r].user \notin DOMAIN adminUsers THEN GwThrow(r, "User is not an admin")
     ELSE LET adminUser == admin_users_with_roles(gw[r].user) IN
       IF ~canCreateUsers(adminUser.role_name)
         THEN GwThrow(r, "Insufficient permissions to create users")
       ELSE IF MissingFields(b) THEN GwThrow(r, "Missing required fields")
       ELSE IF ~emailRegexTest(b.email) THEN GwThrow(r, "Invalid email format")
       ELSE IF Len(b.password) < 6
         THEN GwThrow(r, "Password must be at least 6 characters long")
       ELSE gw' = [gw EXCEPT ![r].pc = "roleSelect",
                             ![r].role_name = adminUser.role_name,
                             ![r].caller_role_active = adminUser.role_is_active]
  /\ UNCHANGED <<roles, authUsers, adminUsers, allocated, clientKey, cl, rpc, ops, edits>>

\* select from roles where id = role_id and is_active, and the assignment check
GwRoleSelect(r, ok) ==
  /\ gw[r].pc = "roleSelect"
  /\ LET rid == gw[r].body.role_id IN
     IF ~ok \/ rid \notin DOMAIN roles \/ ~roles[rid].is_active
       THEN GwThrow(r, "Invalid or inactive role")
     ELSE IF ~canAssignRole(roles[rid].name, gw[r].role_name)
       THEN GwThrow(r, "Only super admins can assign super admin role")
     ELSE gw' = [gw EXCEPT ![r].pc = "listUsers"]
  /\ UNCHANGED <<roles, authUsers, adminUsers, allocated, clientKey, cl, rpc, ops, edits>>

\* auth.admin.listUsers; on an error the returned user list is empty
GwListUsers(r, ok) ==
  /\ gw[r].pc = "listUsers"
  /\ IF ok /\ EmailTaken(gw[r].body.email) THEN GwThrow(r, "Email already exists")
     ELSE gw' = [gw EXCEPT ![r].pc = "createUser"]
  /\ UNCHANGED <<roles, authUsers, adminUsers, allocated, clientKey, cl, rpc, ops, edits>>

\* faulty variant: the identity provider accepts a registered email
GwCreateUser_dupAccepted(r, ok) ==
  /\ gw[r].pc = "createUser"
  /\ IF ~ok
     THEN /\ GwThrow(r, "Failed to create user")
          /\ UNCHANGED <<authUsers, adminUsers, allocated>>
     ELSE /\ Ids \ allocated # {}
          /\ AuthCreateUser(FreshId, gw[r].body.email, gw[r].body.full_name)
          /\ gw' = [gw EXCEPT ![r].pc = "insert", ![r].newUser = FreshId]
  /\ UNCHANGED <<roles, clientKey, cl, rpc, ops, edits>>

\* auth.admin.createUser; the identity provider refuses a registered email
GwCreateUser(r, ok) ==
  /\ gw[r].pc = "createUser"
  /\ IF ~ok \/ EmailTaken(gw[r].body.email)
     THEN /\ GwThrow(r, "Failed to create user")
          /\ UNCHANGED <<authUsers, adminUsers, allocated>>
     ELSE /\ Ids \ allocated # {}
          /\ AuthCreateUser(FreshId, gw[r].body.email, gw[r].body.full_name)
          /\ gw' = [gw EXCEPT ![r].pc = "insert", ![r].newUser = FreshId]
  /\ UNCHANGED <<roles, clientKey, cl, rpc, ops, edits>>

\* insert into admin_users; id is the key of the table.  detail is the message of
\* adminUserError that the thrown error carries
GwInsert(r, ok) ==
  /\ gw[r].pc = "insert"
  /\ LET b == gw[r].body
         id == gw[r].newUser IN
     IF ~ok \/ id \in DOMAIN adminUsers \/ b.role_id \notin DOMAIN roles
     THEN /\ gw' = [gw EXCEPT ![r].pc = "cleanup",
                              ![r].detail = IF ~ok THEN "request failed"
                                            ELSE IF id \in DOMAIN adminUsers
                                              THEN "duplicate key"
                                            ELSE "foreign key"]
          /\ UNCHANGED adminUsers
     ELSE /\ adminUsers' = adminUsers @@
               (id :> [email |-> b.email, full_name |-> b.full_name,
                       role_id |-> b.role_id, invited_by |-> gw[r].user,
                       created_at |-> authUsers[id].created_at])
          /\ gw' = [gw EXCEPT ![r].pc = IF b.send_welcome_email THEN "invite" ELSE "done",
                              ![r].status = IF b.send_welcome_email THEN 0 ELSE 200]
  /\ UNCHANGED <<roles, authUsers, allocated, clientKey, cl, rpc, ops, edits>>

\* the compensation: auth.admin.deleteUser, its result is not looked at
GwCleanup(r, ok) ==
  /\ gw[r].pc = "cleanup"
  /\ IF ok /\ gw[r].newUser \in DOMAIN authUsers
     THEN /\ AuthDeleteUser(gw[r].newUser)
          /\ gw' = [gw EXCEPT ![r].pc = "done", ![r].status = 400,
                              ![r].error = "Failed to create admin user record",
                              ![r].log = @ \cup {"Failed to create admin user record"},
                              ![r].cleanup = "ok"]
     ELSE /\ UNCHANGED <<authUsers, adminUsers>>
          /\ gw' = [gw EXCEPT ![r].pc = "done", ![r].status = 400,
                              ![r].error = "Failed to create admin user record",
                              ![r].log = @ \cup {"Failed to create admin user record"},
                              ![r].cleanup = "failed"]
  /\ UNCHANGED <<roles, allocated, clientKey, cl, rpc, ops, edits>>

\* faulty variant: a failed invitation removes the account and fails the request
GwInvite_rollsBack(r, outcome) ==
  /\ gw[r].pc = "invite"
  /\ IF outcome = "ok"
     THEN /\ gw' = [gw EXCEPT ![r].pc = "done", ![r].status = 200]
          /\ UNCHANGED <<authUsers, adminUsers>>
     ELSE /\ AuthDeleteUser(gw[r].newUser)
          /\ GwThrow(r, "Failed to send welcome email")
  /\ UNCHANGED <<roles, allocated, clientKey, cl, rpc, ops, edits>>

\* auth.admin.inviteUserByEmail inside its own try / catch
GwInvite(r, outcome) ==
  /\ gw[r].pc = "invite"
  /\ gw' = [gw EXCEPT ![r].pc = "done", ![r].status = 200,
                      ![r].log = IF outcome = "throw"
                                 THEN @ \cup {"Failed to send welcome email"} ELSE @]
  /\ UNCHANGED <<roles, authUsers, adminUsers, allocated, clientKey, cl, rpc, ops, edits>>

Gateway(slots, bodies) ==
  \E r \in slots :
     \/ \E hdr \in {NoHeader, BadToken} \cup allocated, body \in bodies, ok \in BOOLEAN :
           GwAuth(r, hdr, body, ok)
     \/ \E ok \in BOOLEAN : GwAdminLookup(r, ok)
     \/ \E ok \in BOOLEAN : GwRoleSelect(r, ok)
     \/ \E ok \in BOOLEAN : GwListUsers(r, ok)
     \/ \E ok \in BOOLEAN : GwCreateUser(r, ok)
     \/ \E ok \in BOOLEAN : GwInsert(r, ok)
     \/ \E ok \in BOOLEAN : GwCleanup(r, ok)
     \/ \E outcome \in {"ok", "error", "throw"} : GwInvite(r, outcome)

(***************************************************************************)
(* Row-level security policies on admin_users for the authenticated role   *)
(***************************************************************************)
IsSuperAdminRole(rid) == rid \in DOMAIN roles /\ roles[rid].name = "super_admin"

\* "Super admins can manage all admin users" (USING and WITH CHECK)
PolicySuperAdmins(uid) == ActiveRoleNameOf(uid) = "super_admin"

\* "Admins can manage non-super-admin users" (USING on the old row, WITH CHECK on the new)
PolicyAdmins(uid, row) ==
  /\ ActiveRoleNameOf(uid) \in {"admin", "super_admin"}
  /\ (~IsSuperAdminRole(row.role_id) \/ PolicySuperAdmins(uid))

\* "Users can read their own admin profile"
PolicyOwnProfile(uid, id) == id = uid

RlsSelect(uid, id) ==
  PolicyOwnProfile(uid, id) \/ PolicySuperAdmins(uid) \/ PolicyAdmins(uid, adminUsers[id])

RlsWrite(uid, row) == PolicySuperAdmins(uid) \/ PolicyAdmins(uid, row)

(***************************************************************************)
(* The browser client: one signed-in session (cl.user) running the page    *)
(* src/pages/AdminUsers.tsx and the functions of src/lib/userManagement.ts *)
(* auth.admin calls are accepted only from a client built with the         *)
(* service-role key; table queries run under row-level security.           *)
(***************************************************************************)
AdminApiAllowed == clientKey = "service_role"

NoUpdates == [email |-> EmptyStr, full_name |-> EmptyStr, role_id |-> ""]

ClInit(u) ==
  [user |-> u, userPermissions |-> EmptyPerms, users |-> [i \in {} |-> 0],
   editingUser |-> {}, deletingUser |-> {},
   pc |-> "idle", op |-> "none", target |-> NoId, updates |-> NoUpdates,
   password |-> "", newUser |-> NoId, cleanup |-> "none",
   success |-> FALSE, error |-> ""]

ClBegin(c, op, target, updates) ==
  [c EXCEPT !.op = op, !.target = target, !.updates = updates, !.password = "",
            !.newUser = NoId, !.cleanup = "none", !.success = FALSE, !.error = ""]

ClReturn(c, success, error) ==
  [c EXCEPT !.pc = "idle", !.success = success, !.error = error]

\* .from('admin_users').update(fields).eq('id', id) as the session user:
\* the rows the policies hide are not updated and raise no error
DbUpdateResult(uid, id, fields, ok) ==
  IF ~ok THEN "error"
  ELSE IF id \notin DOMAIN adminUsers \/ ~RlsWrite(uid, adminUsers[id]) THEN "no_rows"
  ELSE LET new == [adminUsers[id] EXCEPT
                     !.email = IF fields.email # EmptyStr THEN fields.email ELSE @,
                     !.full_name = IF fields.full_name # EmptyStr THEN fields.full_name ELSE @,
                     !.role_id = IF fields.role_id # "" THEN fields.role_id ELSE @]
       IN  IF new.role_id \notin DOMAIN roles THEN "error"
           ELSE IF ~RlsWrite(uid, new) THEN "error"
           ELSE "updated"

DbUpdate(id, fields) ==
  [adminUsers EXCEPT
     ![id].email = IF fields.email # EmptyStr THEN fields.email ELSE @,
     ![id].full_name = IF fields.full_name # EmptyStr THEN fields.full_name ELSE @,
     ![id].role_id = IF fields.role_id # "" THEN fields.role_id ELSE @]

\* auth.admin.updateUserById from the browser
AuthUpdateAccepted(id, email, ok) ==
  /\ ok
  /\ AdminApiAllowed
  /\ id \in DOMAIN authUsers
  /\ email # NoEmail => \A j \in DOMAIN authUsers : j # id => authUsers[j].email # email

\* auth.admin.deleteUser from the browser
AuthDeleteAccepted(id, ok) == ok /\ AdminApiAllowed /\ id \in DOMAIN authUsers

CreateInputs ==
  [email : {EmailNew, EmailAdm}, password : {"123456"}, full_name : {NameAnn},
   role_id : {RoleAdmin, RoleSuper}]

\* the form of EditUserModal: all three fields, validated non-empty
EditInputs ==
  [email : {EmailUsr, EmailNew}, full_name : {NameBob, NameAnn},
   role_id : {RoleUser, RoleSuper}]

UpdateInputs ==
  [email : {EmptyStr, EmailNew}, full_name : {EmptyStr, NameAnn},
   role_id : {"", RoleAdmin, RoleSuper}]

(* ---- deleteUser(userId) of userManagement.ts ---- *)
deleteUser(userId, ok) ==
  /\ cl.pc = "idle"
  /\ ops < MaxOps
  /\ ops' = ops + 1
  /\ IF AuthDeleteAccepted(userId, ok)
     THEN /\ AuthDeleteUser(userId)
          /\ cl' = ClReturn(ClBegin(cl, "deleteUser", userId, NoUpdates), TRUE, "")
     ELSE /\ UNCHANGED <<authUsers, adminUsers>>
          /\ cl' = ClReturn(ClBegin(cl, "deleteUser", userId, NoUpdates), FALSE,
                            "Failed to delete user")
  /\ UNCHANGED <<roles, allocated, clientKey, gw, rpc, edits>>

(* ---- updateUser(userId, updates) of userManagement.ts ---- *)
updateUser_db(c, ok) ==
  LET res == DbUpdateResult(c.user, c.target, c.updates, ok) IN
  /\ adminUsers' = IF res = "updated" THEN DbUpdate(c.target, c.updates) ELSE adminUsers
  /\ cl' = IF res = "error" THEN ClReturn(c, FALSE, "Failed to update user")
           ELSE ClReturn(c, TRUE, "")

updateUser(userId, updates, ok) ==
  /\ cl.pc = "idle"
  /\ ops < MaxOps
  /\ ops' = ops + 1
  /\ LET c == ClBegin(cl, "updateUser", userId, updates)
         email == IF updates.email # EmptyStr THEN updates.email ELSE NoEmail
         name == IF updates.full_name # EmptyStr THEN updates.full_name ELSE NullName
     IN  IF updates.email # EmptyStr \/ updates.full_name # EmptyStr
         THEN IF AuthUpdateAccepted(userId, email, ok)
              THEN /\ AuthUpdateUser(userId, email, name)
                   /\ cl' = [c EXCEPT !.pc = "updateUser_db"]
              ELSE /\ UNCHANGED <<authUsers, adminUsers>>
                   /\ cl' = ClReturn(c, FALSE, "Failed to update user")
         ELSE /\ updateUser_db(c, ok)
              /\ UNCHANGED authUsers
  /\ UNCHANGED <<roles, allocated, clientKey, gw, rpc, edits>>

updateUserDb(ok) ==
  /\ cl.pc = "updateUser_db"
  /\ updateUser_db(cl, ok)
  /\ UNCHANGED <<roles, authUsers, allocated, clientKey, gw, rpc, ops, edits>>

(* ---- createUserWithAdmin(userData) of userManagement.ts ---- *)
ClThrow(c, msg) == ClReturn(c, FALSE, msg)

\* validation, then select email from admin_users where email = userData.email
createUserWithAdmin(userData, ok) ==
  /\ cl.pc = "idle"
  /\ ops < MaxOps
  /\ ops' = ops + 1
  /\ LET c == [ClBegin(cl, "createUserWithAdmin", NoId,
                       [email |-> userData.email, full_name |-> userData.full_name,
                        role_id |-> userData.role_id])
                 EXCEPT !.password = userData.password]
         existingUsers == {i \in DOMAIN adminUsers :
                              adminUsers[i].email = userData.email /\ RlsSelect(cl.user, i)}
     IN  cl' = IF MissingFields(userData) THEN ClThrow(c, "Missing required fields")
               ELSE IF ~emailRegexTest(userData.email) THEN ClThrow(c, "Invalid email format")
               ELSE IF Len(userData.password) < 6
                 THEN ClThrow(c, "Password must be at least 6 characters long")
               ELSE IF ok /\ existingUsers # {} THEN ClThrow(c, "Email already exists")
               ELSE [c EXCEPT !.pc = "cr_role"]
  /\ UNCHANGED <<roles, authUsers, adminUsers, allocated, clientKey, gw, rpc, edits>>

\* select from roles where id = role_id and is_active
crRoleSelect(ok) ==
  /\ cl.pc = "cr_role"
  /\ LET rid == cl.updates.role_id IN
     cl' = IF ~ok \/ rid \notin DOMAIN roles \/ ~roles[rid].is_active
           THEN ClThrow(cl, "Invalid or inactive role")
           ELSE [cl EXCEPT !.pc = "cr_getUser"]
  /\ UNCHANGED <<roles, authUsers, adminUsers, allocated, clientKey, gw, rpc, ops, edits>>

\* auth.getUser() of the session
crGetUser(ok) ==
  /\ cl.pc = "cr_getUser"
  /\ cl' = IF ~ok \/ cl.user \notin DOMAIN authUsers
           THEN ClThrow(cl, "No authenticated user")
           ELSE [cl EXCEPT !.pc = "cr_create"]
  /\ UNCHANGED <<roles, authUsers, adminUsers, allocated, clientKey, gw, rpc, ops, edits>>

\* auth.admin.createUser from the browser
crCreateUser(ok) ==
  /\ cl.pc = "cr_create"
  /\ IF ~ok \/ ~AdminApiAllowed \/ EmailTaken(cl.updates.email)
     THEN /\ cl' = ClThrow(cl, "Failed to create user")
          /\ UNCHANGED <<authUsers, adminUsers, allocated>>
     ELSE /\ Ids \ allocated # {}
          /\ AuthCreateUser(FreshId, cl.updates.email, cl.updates.full_name)
          /\ cl' = [cl EXCEPT !.pc = "cr_insert", !.newUser = FreshId]
  /\ UNCHANGED <<roles, clientKey, gw, rpc, ops, edits>>

\* insert into admin_users as the session user
crInsert(ok) ==
  /\ cl.pc = "cr_insert"
  /\ LET id == cl.newUser
         new == [email |-> cl.updates.email, full_name |-> cl.updates.full_name,
                 role_id |-> cl.updates.role_id, invited_by |-> cl.user,
                 created_at |-> id]
     IN  IF ~ok \/ id \in DOMAIN adminUsers \/ new.role_id \notin DOMAIN roles
            \/ ~RlsWrite(cl.user, new)
         THEN /\ cl' = [cl EXCEPT !.pc = "cr_cleanup"]
              /\ UNCHANGED adminUsers
         ELSE /\ adminUsers' = adminUsers @@ (id :> new)
              /\ cl' = ClReturn(cl, TRUE, "")
  /\ UNCHANGED <<roles, authUsers, allocated, clientKey, gw, rpc, ops, edits>>

\* the compensation: auth.admin.deleteUser, its result is not looked at
crCleanup(ok) ==
  /\ cl.pc = "cr_cleanup"
  /\ IF AuthDeleteAccepted(cl.newUser, ok)
     THEN /\ AuthDeleteUser(cl.newUser)
          /\ cl' = ClThrow([cl EXCEPT !.cleanup = "ok"], "Failed to create admin user record")
     ELSE /\ UNCHANGED <<authUsers, adminUsers>>
          /\ cl' = ClThrow([cl EXCEPT !.cleanup = "failed"],
                           "Failed to create admin user record")
  /\ UNCHANGED <<roles, allocated, clientKey, gw, rpc, ops, edits>>

(* ---- the page AdminUsers.tsx ---- *)
\* faulty variant: the fallback grants the top flag
FallbackPermissions_topFlag == [k \in {"can_manage_super_admins"} |-> TRUE]

FallbackPermissions == [k \in {"can_manage_admins"} |-> TRUE]

Truthy(perms, k) == k \in DOMAIN perms /\ perms[k]

\* rpc('get_user_permissions') for the session user, or the fallback on an error
loadUserPermissions(ok) ==
  /\ cl.pc = "idle"
  /\ cl' = [cl EXCEPT !.userPermissions =
                        IF ok THEN get_user_permissions(cl.user) ELSE FallbackPermissions]
  /\ cl'.userPermissions # cl.userPermissions
  /\ UNCHANGED <<roles, authUsers, adminUsers, allocated, clientKey, gw, rpc, ops, edits>>

\* the rows of admin_users_with_roles kept in the page state
loadUsers ==
  /\ cl.pc = "idle"
  /\ cl' = [cl EXCEPT !.users = [i \in DOMAIN adminUsers |-> admin_users_with_roles(i)]]
  /\ cl'.users # cl.users
  /\ UNCHANGED <<roles, authUsers, adminUsers, allocated, clientKey, gw, rpc, ops, edits>>

canManageUser(userPermissions, user) ==
  IF Truthy(userPermissions, "can_manage_super_admins") THEN TRUE
  ELSE IF Truthy(userPermissions, "can_manage_admins") /\ user.role_name # "super_admin"
       THEN TRUE
  ELSE FALSE

\* the rows of roles with is_active = true kept in the page state
loadRoles == {r \in DOMAIN roles : roles[r].is_active}

getAvailableRoles(userPermissions) ==
  IF Truthy(userPermissions, "can_manage_super_admins") THEN loadRoles
  ELSE {r \in loadRoles : roles[r].name # "super_admin"}

\* UsersList: the edit button of a row
openEditModal(id) ==
  /\ cl.pc = "idle"
  /\ id \in DOMAIN cl.users
  /\ canManageUser(cl.userPermissions, cl.users[id])
  /\ cl' = [cl EXCEPT !.editingUser = {cl.users[id]}]
  /\ cl'.editingUser # cl.editingUser
  /\ UNCHANGED <<roles, authUsers, adminUsers, allocated, clientKey, gw, rpc, ops, edits>>

\* UsersList: the delete button of a row
openDeleteModal(id) ==
  /\ cl.pc = "idle"
  /\ id \in DOMAIN cl.users
  /\ canManageUser(cl.userPermissions, cl.users[id])
  /\ id # cl.user
  /\ cl' = [cl EXCEPT !.deletingUser = {cl.users[id]}]
  /\ cl'.deletingUser # cl.deletingUser
  /\ UNCHANGED <<roles, authUsers, adminUsers, allocated, clientKey, gw, rpc, ops, edits>>

handleDeleteUser(ok) ==
  /\ cl.pc = "idle"
  /\ cl.deletingUser # {}
  /\ ops < MaxPageOps
  /\ ops' = ops + 1
  /\ LET u == CHOOSE x \in cl.deletingUser : TRUE
         c == ClBegin(cl, "handleDeleteUser", u.id, NoUpdates)
     IN  IF AuthDeleteAccepted(u.id, ok)
         THEN /\ AuthDeleteUser(u.id)
              /\ cl' = ClReturn([c EXCEPT !.deletingUser = {}], TRUE, "")
         ELSE /\ UNCHANGED <<authUsers, adminUsers>>
              /\ cl' = ClReturn(c, FALSE, "Failed to delete user")
  /\ UNCHANGED <<roles, allocated, clientKey, gw, rpc, edits>>

\* the update of admin_users with all three form fields
handleEditUser_db(c, ok) ==
  LET res == DbUpdateResult(c.user, c.target, c.updates, ok) IN
  /\ adminUsers' = IF res = "updated" THEN DbUpdate(c.target, c.updates) ELSE adminUsers
  /\ cl' = IF res = "error" THEN ClReturn(c, FALSE, "Failed to update user")
           ELSE ClReturn([c EXCEPT !.editingUser = {}], TRUE, "")

handleEditUser(userData, ok) ==
  /\ cl.pc = "idle"
  /\ cl.editingUser # {}
  /\ ops < MaxPageOps
  /\ ops' = ops + 1
  /\ LET editingUser == CHOOSE x \in cl.editingUser : TRUE
         c == ClBegin(cl, "handleEditUser", editingUser.id, userData)
         email == IF userData.email # editingUser.email THEN userData.email ELSE NoEmail
         name == IF userData.full_name # editingUser.full_name
                 THEN userData.full_name ELSE NullName
     IN  IF email # NoEmail \/ name # NullName
         THEN IF AuthUpdateAccepted(editingUser.id, email, ok)
              THEN /\ AuthUpdateUser(editingUser.id, email, name)
                   /\ cl' = [c EXCEPT !.pc = "handleEditUser_db"]
              ELSE /\ UNCHANGED <<authUsers, adminUsers>>
                   /\ cl' = ClReturn(c, FALSE, "Failed to update user")
         ELSE /\ handleEditUser_db(c, ok)
              /\ UNCHANGED authUsers
  /\ UNCHANGED <<roles, allocated, clientKey, gw, rpc, edits>>

handleEditUserDb(ok) ==
  /\ cl.pc = "handleEditUser_db"
  /\ handleEditUser_db(cl, ok)
  /\ UNCHANGED <<roles, authUsers, allocated, clientKey, gw, rpc, ops, edits>>

(***************************************************************************)
(* Role administration permitted by the policy "Super admins can manage    *)
(* all roles": an actor whose role is named super_admin edits is_active.   *)
(***************************************************************************)
RolesPolicy(uid) ==
  /\ uid \in DOMAIN adminUsers
  /\ adminUsers[uid].role_id \in DOMAIN roles
  /\ roles[adminUsers[uid].role_id].name = "super_admin"

UpdateRoleActive(uid, rid, active) ==
  /\ edits < MaxEdits
  /\ uid \in DOMAIN authUsers
  /\ RolesPolicy(uid)
  /\ roles[rid].is_active # active
  /\ roles' = [roles EXCEPT ![rid].is_active = active]
  /\ edits' = edits + 1
  /\ UNCHANGED <<authUsers, adminUsers, allocated, clientKey, gw, cl, rpc, ops>>

RoleEdit ==
  \E uid \in Ids, rid \in RoleIds, active \in BOOLEAN : UpdateRoleActive(uid, rid, active)

(***************************************************************************)
(* Initial state: the seeded roles, a super admin, an admin and an account *)
(* with the basic role                                                     *)
(***************************************************************************)
SeedAuth ==
  (1 :> [email |-> EmailRoot, full_name |-> NameBob, created_at |-> 1]) @@
  (2 :> [email |-> EmailAdm, full_name |-> NameBob, created_at |-> 2]) @@
  (3 :> [email |-> EmailUsr, full_name |-> NullName, created_at |-> 3])

SeedDir ==
  (1 :> [email |-> EmailRoot, full_name |-> NameBob, role_id |-> RoleSuper,
         invited_by |-> NoId, created_at |-> 1]) @@
  (2 :> [email |-> EmailAdm, full_name |-> NameBob, role_id |-> RoleAdmin,
         invited_by |-> 1, created_at |-> 2]) @@
  (3 :> [email |-> EmailUsr, full_name |-> NameBob, role_id |-> RoleUser,
         invited_by |-> 1, created_at |-> 3])

RpcNone == [fn |-> "none"]

InitStores(act) ==
  /\ roles = [r \in RoleIds |-> [name |-> RoleName(r), is_active |-> act[r],
                                  permissions |-> SeedPerms(r)]]
  /\ authUsers = SeedAuth
  /\ adminUsers = SeedDir
  /\ allocated = {1, 2, 3}
  /\ gw = [r \in GwSlots |-> GwIdle]
  /\ rpc = RpcNone
  /\ ops = 0
  /\ edits = 0

(***************************************************************************)
(* The gateway on its own: a request and role edits, from roles of any      *)
(* activity                                                                *)
(***************************************************************************)
InitGateway ==
  /\ \E act \in [RoleIds -> BOOLEAN] : InitStores(act)
  /\ clientKey = "anon"
  /\ cl = ClInit(1)

NextGateway == Gateway({"g1"}, GwBodies) \/ RoleEdit

SpecGateway == InitGateway /\ [][NextGateway]_vars

(***************************************************************************)
(* Two concurrent requests for the same new email                          *)
(***************************************************************************)
RaceBodies ==
  [email : {EmailNew}, password : {"123456"}, full_name : {NameAnn},
   role_id : {RoleUser, RoleSuper}, send_welcome_email : BOOLEAN]

NextRace == Gateway(GwSlots, RaceBodies) \/ RoleEdit

SpecRace == InitGateway /\ [][NextRace]_vars

(***************************************************************************)
(* The browser client on its own: one session and role edits               *)
(***************************************************************************)
InitClient ==
  /\ InitStores([r \in RoleIds |-> TRUE])
  /\ clientKey \in {"anon", "service_role"}
  /\ \E u \in DOMAIN SeedAuth : cl = ClInit(u)

ClientLib ==
  \/ \E userId \in allocated, ok \in BOOLEAN : deleteUser(userId, ok)
  \/ \E userId \in allocated, updates \in UpdateInputs, ok \in BOOLEAN :
        updateUser(userId, updates, ok)
  \/ \E ok \in BOOLEAN : updateUserDb(ok)
  \/ \E userData \in CreateInputs, ok \in BOOLEAN : createUserWithAdmin(userData, ok)
  \/ \E ok \in BOOLEAN : crRoleSelect(ok)
  \/ \E ok \in BOOLEAN : crGetUser(ok)
  \/ \E ok \in BOOLEAN : crCreateUser(ok)
  \/ \E ok \in BOOLEAN : crInsert(ok)
  \/ \E ok \in BOOLEAN : crCleanup(ok)

NextClient == ClientLib \/ RoleEdit

SpecClient == InitClient /\ [][NextClient]_vars

(***************************************************************************)
(* The page AdminUsers on its own: loads, modals, handlers and role edits  *)
(***************************************************************************)
ClientPage ==
  \/ \E ok \in BOOLEAN : loadUserPermissions(ok)
  \/ loadUsers
  \/ \E id \in Ids : openEditModal(id)
  \/ \E id \in Ids : openDeleteModal(id)
  \/ \E ok \in BOOLEAN : handleDeleteUser(ok)
  \/ \E userData \in EditInputs, ok \in BOOLEAN : handleEditUser(userData, ok)
  \/ \E ok \in BOOLEAN : handleEditUserDb(ok)

NextPage == ClientPage \/ RoleEdit

SpecPage == InitClient /\ [][NextPage]_vars

(***************************************************************************)
(* The listing of the page: loadUsers step by step, with the view path,    *)
(* the fallback path and syncAuthUsers.  Times are in days.  The stores    *)
(* are the seeded accounts with any login times; a directory record may be *)
(* missing for an identity (what a failed creation leaves) and accounts    *)
(* may have been deleted.                                                  *)
(***************************************************************************)
NullTime == 0 - 1
Now == 40
OneDay == 1
SevenDays == 7
ThirtyDays == 30
FallbackDays == 7

LastLogins == {NullTime, Now, Now - 1, Now - 2, Now - 7, Now - 30}

\* the CASE of the view
activity_status(last_login) ==
  IF last_login = NullTime THEN "Never logged in"
  ELSE IF last_login > Now - OneDay THEN "Active"
  ELSE IF last_login > Now - SevenDays THEN "Recently active"
  ELSE IF last_login > Now - ThirtyDays THEN "Inactive"
  ELSE "Long inactive"

\* the conditional expression of the fallback mapping
fallback_activity_status(last_login) ==
  IF last_login # NullTime
  THEN (IF last_login > Now - FallbackDays THEN "Active" ELSE "Inactive")
  ELSE "Never logged in"

\* ORDER BY created_at DESC / .order('created_at', {ascending: false})
RECURSIVE OrderByCreatedDesc(_)
OrderByCreatedDesc(S) ==
  IF S = {} THEN <<>>
  ELSE LET i == CHOOSE i \in S :
                  \A j \in S : adminUsers[j].created_at <= adminUsers[i].created_at
       IN  <<i>> \o OrderByCreatedDesc(S \ {i})

ListRowView(id) ==
  [id |-> id, created_at |-> adminUsers[id].created_at,
   role_name |-> admin_users_with_roles(id).role_name,
   activity_status |-> activity_status(adminUsers[id].last_login)]

\* user.roles?.name is undefined when the embedded role is null
ListRowFallback(id) ==
  [id |-> id, created_at |-> adminUsers[id].created_at,
   role_name |-> IF adminUsers[id].role_id \in DOMAIN roles
                 THEN roles[adminUsers[id].role_id].name ELSE "undefined",
   activity_status |-> fallback_activity_status(adminUsers[id].last_login)]

\* the view runs with its owner's rights: every row of admin_users
ViewListing ==
  LET ids == OrderByCreatedDesc(DOMAIN adminUsers)
  IN  [k \in 1..Len(ids) |-> ListRowView(ids[k])]

\* the select from admin_users as the session user: the rows the policies show
FallbackListing(uid) ==
  LET ids == OrderByCreatedDesc({i \in DOMAIN adminUsers : RlsSelect(uid, i)})
  IN  [k \in 1..Len(ids) |-> ListRowFallback(ids[k])]

\* setUsers(data) and the test of data.length
ListingLoaded(c, path, data) ==
  [c EXCEPT !.users = data, !.op = path,
            !.pc = IF Len(data) = 0 THEN "syncAuthUsers" ELSE "idle"]

\* loadUsers, called by the page or by the timer of syncAuthUsers: the view query
loadUsersView(ok) ==
  /\ cl.pc \in {"idle", "scheduled"}
  /\ IF cl.pc = "idle" THEN ops < MaxOps /\ ops' = ops + 1 ELSE ops' = ops
  /\ LET c == ClBegin(cl, "loadUsers", NoId, NoUpdates)
     IN  cl' = IF ok THEN ListingLoaded(c, "loadUsers_view", ViewListing)
               ELSE [c EXCEPT !.pc = "loadUsers_fallback"]
  /\ UNCHANGED <<roles, authUsers, adminUsers, allocated, clientKey, gw, rpc, edits>>

\* the fallback query after the view query returned an error
loadUsersFallback(ok) ==
  /\ cl.pc = "loadUsers_fallback"
  /\ cl' = IF ok THEN ListingLoaded(cl, "loadUsers_fallback", FallbackListing(cl.user))
           ELSE ClThrow(cl, "Failed to load users")
  /\ UNCHANGED <<roles, authUsers, adminUsers, allocated, clientKey, gw, rpc, ops, edits>>

\* auth.admin.listUsers from the browser; setTimeout(loadUsers, 1000) when it
\* returns users
syncAuthUsers(ok) ==
  /\ cl.pc = "syncAuthUsers"
  /\ cl' = [cl EXCEPT !.pc = IF ok /\ AdminApiAllowed /\ DOMAIN authUsers # {}
                             THEN "scheduled" ELSE "idle"]
  /\ UNCHANGED <<roles, authUsers, adminUsers, allocated, clientKey, gw, rpc, ops, edits>>

InitListing ==
  /\ roles = [r \in RoleIds |-> [name |-> RoleName(r), is_active |-> TRUE,
                                  permissions |-> SeedPerms(r)]]
  /\ \E A \in (SUBSET DOMAIN SeedAuth) \ {{}} :
        /\ authUsers = [i \in A |-> SeedAuth[i]]
        /\ \E u \in A : cl = ClInit(u)
        /\ \E D \in SUBSET A : \E ll \in [D -> LastLogins] :
              adminUsers = [i \in D |->
                 [email |-> SeedDir[i].email, full_name |-> SeedDir[i].full_name,
                  role_id |-> SeedDir[i].role_id, invited_by |-> SeedDir[i].invited_by,
                  created_at |-> SeedDir[i].created_at, last_login |-> ll[i]]]
  /\ allocated = {1, 2, 3}
  /\ gw = [r \in GwSlots |-> GwIdle]
  /\ rpc = RpcNone
  /\ ops = 0
  /\ edits = 0
  /\ clientKey \in {"anon", "service_role"}

NextListing ==
  \/ \E ok \in BOOLEAN : loadUsersView(ok)
  \/ \E ok \in BOOLEAN : loadUsersFallback(ok)
  \/ \E ok \in BOOLEAN : syncAuthUsers(ok)

SpecListing == InitListing /\ [][NextListing]_vars

(***************************************************************************)
(* The resolver functions called over stores of every shape: any role may  *)
(* be inactive or carry misconfigured stored permissions, and the three    *)
(* accounts hold any roles                                                 *)
(***************************************************************************)
MisconfiguredPerms ==
  [k \in {"can_manage_super_admins", "can_manage_admins", "can_manage_users",
          "can_view_all_data", "manage_users"} |-> TRUE]

StoredPermChoices == {EmptyPerms, MisconfiguredPerms}

InitResolver ==
  /\ \E act \in [RoleIds -> BOOLEAN], perms \in [RoleIds -> StoredPermChoices] :
        roles = [r \in RoleIds |-> [name |-> RoleName(r), is_active |-> act[r],
                                    permissions |-> perms[r]]]
  /\ authUsers = SeedAuth
  /\ \E assign \in [DOMAIN SeedDir -> RoleIds] :
        adminUsers = [i \in DOMAIN SeedDir |-> [SeedDir[i] EXCEPT !.role_id = assign[i]]]
  /\ allocated = {1, 2, 3}
  /\ gw = [r \in GwSlots |-> GwIdle]
  /\ rpc = RpcNone
  /\ ops = 0
  /\ edits = 0
  /\ clientKey = "anon"
  /\ cl = ClInit(1)

\* rpc('can_manage_user', {target_user_id}) by the session uid
RpcCanManageUser(uid, target_user_id) ==
  /\ rpc' = [fn |-> "can_manage_user", uid |-> uid, target |-> target_user_id,
             result |-> can_manage_user(uid, target_user_id), perms |-> EmptyPerms]
  /\ UNCHANGED <<roles, authUsers, adminUsers, allocated, clientKey, gw, cl, ops, edits>>

\* rpc('get_user_permissions') by the session uid
RpcGetUserPermissions(uid) ==
  /\ rpc' = [fn |-> "get_user_permissions", uid |-> uid, target |-> uid,
             result |-> FALSE, perms |-> get_user_permissions(uid)]
  /\ UNCHANGED <<roles, authUsers, adminUsers, allocated, clientKey, gw, cl, ops, edits>>

\* the page of the session uid: permissions loaded by rpc('get_user_permissions'),
\* the row of the list read from admin_users_with_roles, canManageUser(row)
UsersListCanManage(uid, id) ==
  /\ id \in DOMAIN adminUsers
  /\ rpc' = [fn |-> "canManageUser", uid |-> uid, target |-> id,
             result |-> canManageUser(get_user_permissions(uid),
                                      admin_users_with_roles(id)),
             perms |-> get_user_permissions(uid)]
  /\ UNCHANGED <<roles, authUsers, adminUsers, allocated, clientKey, gw, cl, ops, edits>>

NextResolver ==
  \/ \E uid \in DOMAIN SeedDir, t \in Ids : RpcCanManageUser(uid, t)
  \/ \E uid \in DOMAIN SeedDir : RpcGetUserPermissions(uid)
  \/ \E uid \in DOMAIN SeedDir, id \in Ids : UsersListCanManage(uid, id)

SpecResolver == InitResolver /\ [][NextResolver]_vars

(***************************************************************************)
(* Properties                                                              *)
(***************************************************************************)
DirRoleName(id) ==
  IF id \in DOMAIN adminUsers /\ adminUsers[id].role_id \in DOMAIN roles
  THEN roles[adminUsers[id].role_id].name ELSE "unknown"

DirRoleActive(id) ==
  /\ id \in DOMAIN adminUsers
  /\ adminUsers[id].role_id \in DOMAIN roles
  /\ roles[adminUsers[id].role_id].is_active

GwPastRoleCheck == {"listUsers", "createUser", "insert", "cleanup", "invite"}

\* C1: a request whose caller resolved to role admin and whose requested role is
\* super_admin never gets past the role check: it creates no identity, ends with
\* status 400, and afterwards no identity or directory record exists for the
\* requested email, nor any record beyond the ones that were there before.
C1_AdminCannotCreateSuperAdmin ==
  \A r \in GwSlots :
     (gw[r].role_name = "admin" /\ IsSuperAdminRole(gw[r].body.role_id)) =>
        /\ gw[r].pc \in {"roleSelect", "done"}
        /\ gw[r].newUser = NoId
        /\ gw[r].pc = "done" => /\ gw[r].status = 400
                                /\ \A i \in DOMAIN authUsers :
                                      authUsers[i].email = gw[r].body.email => i \in DOMAIN SeedAuth
                                /\ \A i \in DOMAIN adminUsers :
                                      adminUsers[i].email = gw[r].body.email => i \in DOMAIN SeedDir
                                /\ \A i \in DOMAIN authUsers : i \in DOMAIN SeedAuth
                                /\ \A i \in DOMAIN adminUsers : i \in DOMAIN SeedDir
                                /\ allocated = DOMAIN SeedAuth

C1_Witness ==
  \E r \in GwSlots :
     /\ gw[r].pc = "done"
     /\ gw[r].role_name = "admin"
     /\ IsSuperAdminRole(gw[r].body.role_id)
     /\ gw[r].error = "Only super admins can assign super admin role"
     /\ ~EmailTaken(gw[r].body.email)

GwAuthErrors ==
  {"No authorization header", "Unauthorized", "User is not an admin",
   "Insufficient permissions to create users"}

\* C2: a request mutates a store only after the identity provider validated its
\* bearer token, the caller was found in the directory and the caller's role name
\* was admin or super_admin; a request that fails one of these ends with status
\* 400 and both stores are as they were.
C2_NoMutationWithoutAdminCaller ==
  \A r \in GwSlots :
     /\ (gw[r].newUser # NoId \/ gw[r].pc \in GwPastRoleCheck \cup {"roleSelect"}) =>
           /\ gw[r].user # NoId
           /\ gw[r].role_name \in {"admin", "super_admin"}
     /\ (gw[r].pc = "done" /\ gw[r].error \in GwAuthErrors) =>
           /\ gw[r].status = 400
           /\ gw[r].newUser = NoId
           /\ authUsers = SeedAuth
           /\ adminUsers = SeedDir

C2_Witness ==
  \E r \in GwSlots :
     /\ gw[r].pc = "done"
     /\ gw[r].user # NoId
     /\ gw[r].error = "Insufficient permissions to create users"
     /\ gw[r].status = 400
     /\ authUsers = SeedAuth

\* C3: can_manage_user called by an actor whose role is admin for a target whose
\* role is super_admin returns false.
C3_AdminCannotManageSuperAdmin ==
  (/\ rpc.fn = "can_manage_user"
   /\ DirRoleName(rpc.uid) = "admin"
   /\ DirRoleName(rpc.target) = "super_admin") => rpc.result = FALSE

C3_Witness ==
  /\ rpc.fn = "can_manage_user"
  /\ DirRoleName(rpc.uid) = "admin"
  /\ DirRoleActive(rpc.uid)
  /\ DirRoleName(rpc.target) = "super_admin"
  /\ DirRoleActive(rpc.target)
  /\ rpc.result = FALSE

\* C4: for an actor whose own role is inactive, get_user_permissions returns
\* can_manage_super_admins, can_manage_admins and can_manage_users all false,
\* whatever the role's name and stored permissions, and can_manage_user returns
\* false for every target other than the actor itself.
C4_ResolverFailsClosed ==
  (rpc.fn # "none" /\ rpc.uid \in DOMAIN adminUsers /\ ~DirRoleActive(rpc.uid)) =>
     /\ rpc.fn = "get_user_permissions" =>
           \A k \in {"can_manage_super_admins", "can_manage_admins", "can_manage_users"} :
              k \in DOMAIN rpc.perms /\ rpc.perms[k] = FALSE
     /\ (rpc.fn = "can_manage_user" /\ rpc.target # rpc.uid) => rpc.result = FALSE

C4_Witness ==
  /\ rpc.fn = "get_user_permissions"
  /\ DirRoleName(rpc.uid) = "super_admin"
  /\ ~DirRoleActive(rpc.uid)
  /\ roles[adminUsers[rpc.uid].role_id].permissions = MisconfiguredPerms
  /\ rpc.perms["can_manage_users"] = FALSE

\* C5 (as claimed): no request whose caller's role was inactive when the caller
\* was looked up gets past the permission check, so none creates an identity.
C5_GatewayFailsClosed ==
  \A r \in GwSlots :
     (gw[r].role_name # "" /\ ~gw[r].caller_role_active) =>
        /\ gw[r].pc = "done"
        /\ gw[r].status = 400
        /\ gw[r].newUser = NoId

\* C6 (as claimed): deleteUser by an actor for whom can_manage_user is false for
\* the target returns an error and changes neither store.
C6_DeleteNeedsCanManage ==
  [][(ops' # ops /\ cl'.op = "deleteUser" /\ ~can_manage_user(cl.user, cl'.target)) =>
        (~cl'.success /\ authUsers' = authUsers /\ adminUsers' = adminUsers)]_vars

\* C7 (as claimed): deleteUser of the actor's own id is rejected and both of the
\* actor's records remain.
C7_NoSelfDelete ==
  [][(ops' # ops /\ cl'.op = "deleteUser" /\ cl'.target = cl.user) =>
        (~cl'.success /\ authUsers' = authUsers /\ adminUsers' = adminUsers)]_vars

\* C8 (as claimed): a step of updateUser taken while can_manage_user is false for
\* the actor and the target changes neither store, and the call does not return
\* success.
C8_UpdateNeedsCanManage ==
  [][(cl' # cl /\ cl'.op = "updateUser" /\ ~can_manage_user(cl.user, cl'.target)) =>
        /\ authUsers' = authUsers
        /\ adminUsers' = adminUsers
        /\ cl'.pc = "idle" => ~cl'.success]_vars

\* C9 (as claimed): once a request whose directory insert failed has returned,
\* the identity it created is absent from the identity provider.
C9_InsertFailureCompensated ==
  \A r \in GwSlots :
     (gw[r].pc = "done" /\ gw[r].newUser # NoId /\ gw[r].status = 400) =>
        gw[r].newUser \notin DOMAIN authUsers

\* C10 (as claimed): when a finished request leaves behind the identity it
\* created because the compensating delete failed, that failure is retried or
\* reported: the log holds an entry other than the insert error.
C10_FailedCompensationReported ==
  \A r \in GwSlots :
     (gw[r].pc = "done" /\ gw[r].cleanup = "failed" /\ gw[r].newUser \in DOMAIN authUsers) =>
        gw[r].log \ {"Failed to create admin user record"} # {}

\* the steps of request r that check or use the requested email
GwEmailStep(r) == gw'[r] # gw[r] /\ gw[r].pc \in {"listUsers", "createUser"}

GwSucceeded(r) == gw[r].pc = "done" /\ gw[r].status = 200

GwSameEmail(r1, r2) ==
  r1 # r2 /\ gw[r1].pc # "idle" /\ gw[r2].pc # "idle" /\ gw[r1].body.email = gw[r2].body.email

UniqueEmails ==
  /\ \A i, j \in DOMAIN authUsers : authUsers[i].email = authUsers[j].email => i = j
  /\ \A i, j \in DOMAIN adminUsers : adminUsers[i].email = adminUsers[j].email => i = j

WinnerIntact(r1, r2) ==
  (GwSameEmail(r1, r2) /\ GwSucceeded(r1)) =>
     /\ ~GwSucceeded(r2)
     /\ gw[r2].pc = "done" => gw[r2].status = 400
     /\ gw[r1].newUser \in DOMAIN authUsers
     /\ authUsers[gw[r1].newUser].email = gw[r1].body.email
     /\ gw[r1].newUser \in DOMAIN adminUsers
     /\ adminUsers[gw[r1].newUser].email = gw[r1].body.email
     /\ adminUsers[gw[r1].newUser].role_id = gw[r1].body.role_id

C13_SuperAdminCreateSucceeds ==
  \A r \in GwSlots :
     (/\ gw[r].pc = "done"
      /\ gw[r].newUser # NoId
      /\ gw[r].role_name = "super_admin"
      /\ gw[r].caller_role_active
      /\ gw[r].body.role_id = RoleSuper
      /\ roles[RoleSuper].is_active
      /\ gw[r].detail # "request failed"
      /\ gw[r].cleanup # "failed") =>
        /\ gw[r].status = 200
        /\ gw[r].newUser \in DOMAIN adminUsers
        /\ adminUsers[gw[r].newUser].role_id = gw[r].body.role_id

\* C14: every directory record has an identity record with the same id, in every
\* state reached by creating, updating and deleting accounts.
C14_DirectoryHasIdentity == \A i \in DOMAIN adminUsers : i \in DOMAIN authUsers

C14_Witness ==
  /\ cl.op = "deleteUser"
  /\ cl.pc = "idle"
  /\ cl.success
  /\ cl.target \in allocated
  /\ cl.target \notin DOMAIN authUsers
  /\ cl.target \notin DOMAIN adminUsers

\* C15 (as claimed): every directory record other than the seeded ones is the
\* record of an identity whose creating request has passed all its checks and
\* completed its own directory insert; the creation of the identity alone puts
\* no record in the directory.
C15_DirectoryOnlyByCreateAccount ==
  \A i \in DOMAIN adminUsers :
     \/ i \in DOMAIN SeedDir
     \/ \E r \in GwSlots : /\ gw[r].newUser = i
                           /\ gw[r].pc \in {"invite", "done"}
                           /\ gw[r].status # 400

\* C16 (as claimed): no step gives an account a role reference, new or changed,
\* to a role that is inactive at that moment.
C16_InactiveRoleNeverAssigned ==
  [][\A i \in DOMAIN adminUsers' :
        (i \notin DOMAIN adminUsers \/ adminUsers'[i].role_id # adminUsers[i].role_id) =>
           /\ adminUsers'[i].role_id \in DOMAIN roles
           /\ roles[adminUsers'[i].role_id].is_active]_vars

\* C17: for every account, whatever its role and whether or not that role is
\* active, can_manage_user called by the account for itself returns true.
C17_SelfManagement ==
  (/\ rpc.fn = "can_manage_user"
   /\ rpc.uid \in DOMAIN adminUsers
   /\ rpc.target = rpc.uid) => rpc.result = TRUE

C17_Witness ==
  /\ rpc.fn = "can_manage_user"
  /\ rpc.target = rpc.uid
  /\ DirRoleName(rpc.uid) = "admin"
  /\ ~DirRoleActive(rpc.uid)
  /\ rpc.result = TRUE

\* C18 (as claimed): can_manage_user called by an actor whose role is admin and
\* active returns true for every existing target whose role is not super_admin,
\* targets whose role has been deactivated included.
C18_AdminManagesNonSuperAdmin ==
  (/\ rpc.fn = "can_manage_user"
   /\ DirRoleName(rpc.uid) = "admin"
   /\ DirRoleActive(rpc.uid)
   /\ rpc.target \in DOMAIN adminUsers
   /\ DirRoleName(rpc.target) # "super_admin") => rpc.result = TRUE

\* C19 (as claimed): canManageUser of the page, evaluated with the permissions
\* get_user_permissions returned for the actor, gives for every row the boolean
\* can_manage_user gives for the same actor and target.
C19_ClientGateMatchesStore ==
  rpc.fn = "canManageUser" => rpc.result = can_manage_user(rpc.uid, rpc.target)

StoredPermsOf(uid) == roles[adminUsers[uid].role_id].permissions

ManagementFlagsByName(perms, n) ==
  /\ {"can_manage_super_admins", "can_manage_admins", "can_manage_users"} \subseteq DOMAIN perms
  /\ perms["can_manage_super_admins"] = (n = "super_admin")
  /\ perms["can_manage_admins"] = (n \in {"admin", "super_admin"})
  /\ perms["can_manage_users"] = (n \in {"admin", "super_admin"})

CarriedOver(perms, P, overlaid) ==
  \A k \in (DOMAIN P) \ overlaid : k \in DOMAIN perms /\ perms[k] = P[k]

\* C20 (as claimed): for an actor with an active role named n and stored
\* permissions P, get_user_permissions returns can_manage_super_admins =
\* (n = super_admin), can_manage_admins = can_manage_users = (n is admin or
\* super_admin), whatever P holds under these keys, and every other key of P
\* with P's value.
C20_OnlyManagementFlagsOverlaid ==
  (rpc.fn = "get_user_permissions" /\ DirRoleActive(rpc.uid)) =>
     /\ ManagementFlagsByName(rpc.perms, DirRoleName(rpc.uid))
     /\ CarriedOver(rpc.perms, StoredPermsOf(rpc.uid),
                    {"can_manage_super_admins", "can_manage_admins", "can_manage_users"})

\* C20 (amended): the three management flags are as claimed, and so are two more
\* computed keys: can_view_all_data = (n is admin or super_admin) and
\* can_modify_system_settings = (n = super_admin), whatever P holds under them;
\* every key of P other than these five is carried over with P's value.
C20_ComputedFlagsOverlaid ==
  (rpc.fn = "get_user_permissions" /\ DirRoleActive(rpc.uid)) =>
     /\ ManagementFlagsByName(rpc.perms, DirRoleName(rpc.uid))
     /\ {"can_view_all_data", "can_modify_system_settings"} \subseteq DOMAIN rpc.perms
     /\ rpc.perms["can_view_all_data"] = (DirRoleName(rpc.uid) \in {"admin", "super_admin"})
     /\ rpc.perms["can_modify_system_settings"] = (DirRoleName(rpc.uid) = "super_admin")
     /\ CarriedOver(rpc.perms, StoredPermsOf(rpc.uid),
                    {"can_manage_super_admins", "can_manage_admins", "can_manage_users",
                     "can_view_all_data", "can_modify_system_settings"})

C20_Witness ==
  /\ rpc.fn = "get_user_permissions"
  /\ DirRoleActive(rpc.uid)
  /\ DirRoleName(rpc.uid) = "user"
  /\ StoredPermsOf(rpc.uid) = MisconfiguredPerms
  /\ rpc.perms["can_manage_users"] = FALSE
  /\ rpc.perms["manage_users"] = TRUE

\* C21 (as claimed): the preconditions are checked in the order email syntax,
\* email not registered, role exists and is active, actor may assign the role:
\* a request that ends at the role checks while its email is registered fails
\* with the duplicate-email error.
C21_EarliestPreconditionWins ==
  [][\A r \in GwSlots :
        (/\ gw[r].pc = "roleSelect"
         /\ gw'[r].pc = "done"
         /\ EmailTaken(gw[r].body.email)
         /\ LET rid == gw[r].body.role_id IN
               \/ rid \notin DOMAIN roles
               \/ ~roles[rid].is_active
               \/ ~canAssignRole(roles[rid].name, gw[r].role_name))
        => gw'[r].error = "Email already exists"]_vars

\* a step of updateUser: its first step counts an operation, its second starts
\* at the directory update
UpdateUserStep ==
  /\ cl'.op = "updateUser"
  /\ (ops' # ops \/ cl.pc = "updateUser_db")

\* C22: a step of updateUser leaves, in the identity record and in the directory
\* record of the target, every field that was not supplied as it was (the
\* identity-update trigger included).
C22_PartialUpdate ==
  [][UpdateUserStep =>
       LET t == cl'.target
           u == cl'.updates
       IN  /\ (t \in DOMAIN authUsers /\ t \in DOMAIN authUsers') =>
                 /\ u.email = EmptyStr => authUsers'[t].email = authUsers[t].email
                 /\ u.full_name = EmptyStr => authUsers'[t].full_name = authUsers[t].full_name
           /\ (t \in DOMAIN adminUsers /\ t \in DOMAIN adminUsers') =>
                 /\ u.email = EmptyStr => adminUsers'[t].email = adminUsers[t].email
                 /\ u.full_name = EmptyStr => adminUsers'[t].full_name = adminUsers[t].full_name
                 /\ u.role_id = "" => adminUsers'[t].role_id = adminUsers[t].role_id]_vars

C22_Witness ==
  /\ cl.op = "updateUser"
  /\ cl.pc = "idle"
  /\ cl.success
  /\ cl.updates = [email |-> EmailNew, full_name |-> EmptyStr, role_id |-> ""]
  /\ cl.target = 3
  /\ authUsers[3].email = EmailNew
  /\ adminUsers[3].email = EmailNew
  /\ adminUsers[3].full_name = NameBob
  /\ adminUsers[3].role_id = RoleUser

\* the account a request created is still there: identity and directory record
GwAccountExists(r) ==
  /\ gw[r].newUser # NoId
  /\ gw[r].newUser \in DOMAIN authUsers
  /\ gw[r].newUser \in DOMAIN adminUsers

\* C23 (as claimed): every response is status 200 (success, with the user) exactly
\* when the request created an account that still exists, and status 400 with an
\* error string otherwise.
C23_UniformEnvelope ==
  \A r \in GwSlots :
     gw[r].pc = "done" =>
        /\ gw[r].status \in {200, 400}
        /\ gw[r].status = 200 <=> GwAccountExists(r)
        /\ gw[r].status = 200 => gw[r].error = ""
        /\ gw[r].status = 400 => gw[r].error # ""

\* C24: the step that sends the welcome notification, whatever its outcome,
\* leaves the identity record and the directory record of the new account in
\* place and ends the request with status 200.
C24_WelcomeFailureKeepsAccount ==
  [][\A r \in GwSlots :
        (gw[r].pc = "invite" /\ gw'[r] # gw[r]) =>
           /\ gw'[r].pc = "done"
           /\ gw'[r].status = 200
           /\ gw'[r].error = ""
           /\ authUsers' = authUsers
           /\ adminUsers' = adminUsers
           /\ gw[r].newUser \in DOMAIN authUsers'
           /\ gw[r].newUser \in DOMAIN adminUsers']_vars

C24_Witness ==
  \E r \in GwSlots :
     /\ gw[r].pc = "done"
     /\ gw[r].body.send_welcome_email
     /\ "Failed to send welcome email" \in gw[r].log
     /\ gw[r].status = 200
     /\ GwAccountExists(r)

\* C25 (as claimed): a finished listing, by the view or by the fallback query,
\* has exactly one row per directory account, in descending order of creation
\* time, and gives role name 'unknown' to an account whose role reference
\* resolves to no role.
C25_ListingComplete ==
  cl.op \in {"loadUsers_view", "loadUsers_fallback"} =>
     /\ Len(cl.users) = Cardinality(DOMAIN adminUsers)
     /\ {cl.users[k].id : k \in 1..Len(cl.users)} = DOMAIN adminUsers
     /\ \A k \in 1..(Len(cl.users) - 1) :
           cl.users[k].created_at >= cl.users[k + 1].created_at
     /\ \A k \in 1..Len(cl.users) :
           adminUsers[cl.users[k].id].role_id \notin DOMAIN roles =>
              cl.users[k].role_name = "unknown"

\* C26 (as claimed): every row of a finished listing, by the view or by the
\* fallback query, has activity status 'Never logged in' for a null last_login,
\* 'Active' for a login less than 1 day old, 'Recently active' for less than 7
\* days, 'Inactive' for less than 30 days and 'Long inactive' otherwise.
C26_ActivityStatus ==
  cl.op \in {"loadUsers_view", "loadUsers_fallback"} =>
     \A k \in 1..Len(cl.users) :
        LET last_login == adminUsers[cl.users[k].id].last_login
            age == Now - last_login
        IN  cl.users[k].activity_status =
              (IF last_login = NullTime THEN "Never logged in"
               ELSE IF age < 1 THEN "Active"
               ELSE IF age < 7 THEN "Recently active"
               ELSE IF age < 30 THEN "Inactive"
               ELSE "Long inactive")

\* C27 (as claimed): no load of the user directory reschedules itself: the page
\* is never left with a timer that will call loadUsers again, an empty listing
\* included.
C27_NoAutomaticReload ==
  cl.pc # "scheduled"

\* an id whose identity was created and has been deleted
Deleted(id) == id \in allocated /\ id \notin DOMAIN authUsers

\* C28 (as claimed): Deleted is final: an updateUser on a deleted id returns a
\* failure whatever fields are supplied, and a deleted id never gets a
\* directory record again.
C28_DeletedIsFinal ==
  [][/\ (UpdateUserStep /\ Deleted(cl'.target) /\ cl'.pc = "idle") => ~cl'.success
     /\ \A id \in Ids : Deleted(id) => id \notin DOMAIN adminUsers']_vars

SuperHolders == {i \in DOMAIN adminUsers : IsSuperAdminRole(adminUsers[i].role_id)}

\* C29 (as claimed): no step of a create, update or delete issued by a session
\* whose role is not the active super_admin adds an account to the holders of
\* the super_admin role.
C29_NoEscalation ==
  [][(edits' = edits /\ ActiveRoleNameOf(cl.user) # "super_admin") =>
        SuperHolders' \subseteq SuperHolders]_vars

\* C30: with the fallback permissions the page holds after a failed permission
\* query, canManageUser is true for exactly the listed accounts whose role name
\* is not super_admin and getAvailableRoles has no role named super_admin,
\* whatever the role of the session user.
C30_FallbackPermissions ==
  cl.userPermissions = FallbackPermissions =>
     /\ \A id \in DOMAIN cl.users :
           canManageUser(cl.userPermissions, cl.users[id])
              = (cl.users[id].role_name # "super_admin")
     /\ getAvailableRoles(cl.userPermissions)
           = {r \in DOMAIN roles : roles[r].is_active /\ roles[r].name # "super_admin"}

C30_Witness ==
  /\ cl.userPermissions = FallbackPermissions
  /\ cl.user = 3
  /\ ActiveRoleNameOf(cl.user) = "user"
  /\ \E id \in DOMAIN cl.users : cl.users[id].role_name = "super_admin"
  /\ \E x \in cl.editingUser : x.role_name = "admin"
  /\ ~canManageUser(cl.userPermissions, cl.users[1])

====
